---- MODULE Spec2Model ----
(***************************************************************************)
(* State-machine model of ultralytics_gdrive_ops:                          *)
(*   - src/train.py      save_top10_models_callback (checkpoint retention) *)
(*   - src/gdrive_ops.py check_for_new_files (listing diff)                *)
(*   - src/main.py       TrainManager (orchestrator loop and sync thread)  *)
(* The three parts share no state in the program: the callback runs in the *)
(* child training process, the listing diff is a pure function, and the    *)
(* sync thread reads one flag of the orchestrator.  Each part has its own  *)
(* specification over the same variables.                                  *)
(***************************************************************************)
EXTENDS Integers, Sequences, FiniteSets, Bags, TLC

VARIABLES
    \* ---- src/train.py: the trainer object seen by the callback ----
    has_top10,      \* hasattr(trainer, "_top10_models")
    top10,          \* trainer._top10_models: heap list of <<score, epoch, path>>
    ckpt_paths,     \* trainer._top10_ckpt_paths
    files,          \* checkpoint artifacts present in trainer.wdir
    epoch,          \* trainer.epoch at the next on_fit_epoch_end
    offered,        \* history: bag of the scores of all candidates offered
    calls,          \* history: number of callback invocations
    last,           \* history: what the last invocation did
    \* ---- src/gdrive_ops.py: one call of check_for_new_files ----
    d_pc,           \* "call" before the call, "done" after it returned
    d_is_gdrive,    \* argument is_gdrive
    d_current,      \* argument current_files
    d_current0,     \* history: current_files as passed by the caller
    d_listing,      \* what rclone.ls / os.listdir returns for the path
    d_new,          \* the returned list
    \* ---- src/main.py: TrainManager ----
    pc,             \* position of the main context
    known,          \* self.current_gdrive_dataset_paths
    training_queue, \* self.training_queue
    new_dataset,    \* the dataset popped by _process_next_dataset
    active,         \* number of live child training processes
    stop_sync_thread, \* self.stop_sync_thread
    trigger,        \* which except clause of start() is running, or "none"
    exit_code,      \* status passed to sys.exit, -1 while running
    hist,           \* history record of the main context
    s_pc,           \* position of sync_task
    s_i,            \* iterations done of "for _ in range(1200)"
    s_hist          \* history record of the sync thread

trainVars == <<has_top10, top10, ckpt_paths, files, epoch, offered, calls, last>>
diffVars  == <<d_pc, d_is_gdrive, d_current, d_current0, d_listing, d_new>>
mainVars  == <<pc, known, training_queue, new_dataset, active,
               stop_sync_thread, trigger, exit_code, hist>>
syncVars  == <<s_pc, s_i, s_hist>>
vars == <<trainVars, diffVars, mainVars, syncVars>>

(***************************************************************************)
(* Bounds of the model.                                                    *)
(***************************************************************************)
\* capacity of the retention set (10 in src/train.py:117, smaller here)
K == 3
\* number of callback invocations explored
MaxCalls == 5
\* scores are integers 0..MaxScore, in units of half a display digit (0.5e-6)
MaxScore == 3

Scores == 0..MaxScore

(***************************************************************************)
(* src/train.py: save_top10_models_callback                                *)
(***************************************************************************)
\* f"{map_score:.6f}": two score units per display unit, rounded half up
Fmt6(score) == (score + 1) \div 2

\* ckpt_path = trainer.wdir / f"top10_epoch{epoch}_map5095_{map_score:.6f}.pt"
CkptPath(ep, score) == <<ep, Fmt6(score)>>

\* Python's "<" on the tuples (fitness, epoch, path).  The path is compared
\* only when fitness and epoch are equal, and then both paths are the same
\* string, so the third component never decides.
PathLess(p, q) == p[1] < q[1] \/ (p[1] = q[1] /\ p[2] < q[2])

TupleLess(a, b) ==
    \/ a[1] < b[1]
    \/ a[1] = b[1] /\ a[2] < b[2]
    \/ a[1] = b[1] /\ a[2] = b[2] /\ PathLess(a[3], b[3])

\* 0-based access to a Python list held as a sequence
At(h, i) == h[i + 1]
Put(h, i, x) == [h EXCEPT ![i + 1] = x]

\* heapq._siftdown(heap, startpos, pos), with newitem = heap[pos] on entry
RECURSIVE SiftDownLoop(_, _, _, _)
SiftDownLoop(h, startpos, pos, newitem) ==
    IF pos > startpos
    THEN LET parentpos == (pos - 1) \div 2
             parent == At(h, parentpos)
         IN IF TupleLess(newitem, parent)
            THEN SiftDownLoop(Put(h, pos, parent), startpos, parentpos, newitem)
            ELSE Put(h, pos, newitem)
    ELSE Put(h, pos, newitem)

SiftDown(h, startpos, pos) == SiftDownLoop(h, startpos, pos, At(h, pos))

\* heapq._siftup(heap, pos): bubble the smaller child up to a leaf, then
\* sift the item down into place
RECURSIVE SiftUpLoop(_, _, _, _)
SiftUpLoop(h, startpos, pos, newitem) ==
    LET endpos == Len(h)
        childpos == 2 * pos + 1
    IN IF childpos < endpos
       THEN LET rightpos == childpos + 1
                c == IF rightpos < endpos
                        /\ ~TupleLess(At(h, childpos), At(h, rightpos))
                     THEN rightpos ELSE childpos
            IN SiftUpLoop(Put(h, pos, At(h, c)), startpos, c, newitem)
       ELSE SiftDown(Put(h, pos, newitem), startpos, pos)

SiftUp(h, pos) == SiftUpLoop(h, pos, pos, At(h, pos))

\* heapq.heappush(heap, item)
HeapPush(h, item) == SiftDown(Append(h, item), 0, Len(h))

\* heappop that moves the last item to the root without sifting it
HeapPop_nosift(h) ==
    LET lastelt == h[Len(h)]
        rest == SubSeq(h, 1, Len(h) - 1)
    IN IF rest # <<>>
       THEN <<h[1], Put(rest, 0, lastelt)>>
       ELSE <<lastelt, rest>>

\* heapq.heappop(heap): <<returned item, heap afterwards>>; h is not empty
HeapPop(h) ==
    LET lastelt == h[Len(h)]
        rest == SubSeq(h, 1, Len(h) - 1)
    IN IF rest # <<>>
       THEN <<h[1], SiftUp(Put(rest, 0, lastelt), 0)>>
       ELSE <<lastelt, rest>>

\* an off-by-one capacity test, "len(top10) <= 10"
HasRoom_offbyone(h) == Len(h) <= K

\* "if len(top10) < 10"
HasRoom(h) == Len(h) < K

\* a comparison that also lets a candidate equal to the worst in
BeatsWorst_orequal(score, h) == score >= h[1][1]

\* "if map_score > top10[0][0]"
BeatsWorst(score, h) == score > h[1][1]

\* "if worst_path in trainer._top10_ckpt_paths"
Tracked(path, paths) == path \in paths

\* os.remove(worst_path) inside try/except Exception: pass
Remove(fs, path, fails) == IF fails THEN fs ELSE fs \ {path}

\* an os.remove outside any try: its exception leaves the callback
Escapes_unhandled(fails) == fails

\* whether an exception of os.remove leaves the callback: lines 127-130
\* catch it ("except Exception: pass")
Escapes(fails) == FALSE

\* One invocation of the callback with trainer.metrics[...] = score;
\* delFails says whether os.remove raises.
SaveTop10(score, delFails) ==
    /\ calls < MaxCalls
    /\ LET h0 == top10              \* [] on the first call (lines 93-95)
           path == CkptPath(epoch, score)
           item == <<score, epoch, path>>
       IN IF HasRoom(h0)
          THEN /\ top10' = HeapPush(h0, item)
               /\ ckpt_paths' = ckpt_paths \cup {path}
               /\ files' = files \cup {path}
               /\ last' = [kind |-> "add", cand |-> item, worst |-> <<>>,
                           removed |-> {}, del_failed |-> FALSE]
          ELSE IF BeatsWorst(score, h0)
          THEN LET popped == HeapPop(h0)
                   worst == popped[1]
                   worst_path == worst[3]
                   tracked == Tracked(worst_path, ckpt_paths)
                   fs1 == IF tracked THEN Remove(files, worst_path, delFails)
                          ELSE files
                   ps1 == IF tracked THEN ckpt_paths \ {worst_path}
                          ELSE ckpt_paths
               IN IF tracked /\ Escapes(delFails)
                  THEN \* the callback ends at line 128, after the pop
                       /\ top10' = popped[2]
                       /\ UNCHANGED <<ckpt_paths, files>>
                       /\ last' = [kind |-> "raised", cand |-> item,
                                   worst |-> worst, removed |-> {},
                                   del_failed |-> TRUE]
                  ELSE /\ top10' = HeapPush(popped[2], item)
                       /\ ckpt_paths' = ps1 \cup {path}
                       /\ files' = fs1 \cup {path}
                       /\ last' = [kind |-> "replace", cand |-> item,
                                   worst |-> worst, removed |-> files \ fs1,
                                   del_failed |-> tracked /\ delFails]
          ELSE /\ UNCHANGED <<top10, ckpt_paths, files>>
               /\ last' = [kind |-> "drop", cand |-> item, worst |-> <<>>,
                           removed |-> {}, del_failed |-> FALSE]
    /\ has_top10' = TRUE
    /\ offered' = offered (+) SetToBag({score})
    /\ calls' = calls + 1
    \* the training loop moves to the next epoch, or final_eval runs the
    \* callbacks once more for the same epoch
    /\ \E e \in {epoch, epoch + 1} : epoch' = e
    /\ UNCHANGED <<diffVars, mainVars, syncVars>>

(***************************************************************************)
(* src/gdrive_ops.py: check_for_new_files                                  *)
(***************************************************************************)
\* names a watched folder may hold
Ids == {"a.zip", "b.zip", "c.txt"}
\* longest listing explored
MaxListing == 2

RECURSIVE SeqsUpTo(_, _)
SeqsUpTo(S, n) ==
    IF n = 0 THEN {<<>>}
    ELSE LET shorter == SeqsUpTo(S, n - 1)
         IN shorter \cup {Append(q, x) : q \in {r \in shorter : Len(r) = n - 1},
                                          x \in S}

Range(q) == {q[i] : i \in 1..Len(q)}
NoDup(q) == \A i, j \in 1..Len(q) : q[i] = q[j] => i = j

\* rclone.ls(path) returns one entry per remote object; Google Drive may hold
\* several objects of one name, so a name can occur more than once
GdriveListings == SeqsUpTo(Ids, MaxListing)
\* os.listdir(path) names each directory entry once
LocalListings == {q \in GdriveListings : NoDup(q)}

\* "filename not in current_files"
IsNew(filename, current_files) == filename \notin Range(current_files)

\* the loop of lines 20-27 over the names of the listing, in listing order
RECURSIVE NewFiles(_, _)
NewFiles(names, current_files) ==
    IF names = <<>> THEN <<>>
    ELSE LET rest == NewFiles(Tail(names), current_files)
         IN IF IsNew(Head(names), current_files)
            THEN <<Head(names)>> \o rest
            ELSE rest

\* file['Path'] for an rclone entry, the entry itself for os.listdir
FileNames(listing, is_gdrive) ==
    IF is_gdrive THEN [i \in 1..Len(listing) |-> listing[i].Path] ELSE listing

AsEntries(names, is_gdrive) ==
    IF is_gdrive THEN [i \in 1..Len(names) |-> [Path |-> names[i]]] ELSE names

CheckForNewFiles(listing, current_files, is_gdrive) ==
    NewFiles(FileNames(listing, is_gdrive), current_files)

\* one call of check_for_new_files on the arguments drawn by InitDiff
DiffCall ==
    /\ d_pc = "call"
    /\ d_new' = CheckForNewFiles(d_listing, d_current, d_is_gdrive)
    /\ d_pc' = "done"
    /\ UNCHANGED <<d_is_gdrive, d_current, d_current0, d_listing>>
    /\ UNCHANGED <<trainVars, mainVars, syncVars>>

(***************************************************************************)
(* src/main.py: TrainManager, the main context                             *)
(***************************************************************************)
\* positions of the main context inside the try block of start()
LoopPcs == {"poll", "sleep", "process", "download", "prepare", "train"}

\* dataset_path.endswith('.zip') in Trainer.prepare_dataset
IsZip(name) == name \in {"a.zip", "b.zip"}

\* a test that also takes a queue of one job as empty
QueueEmpty_short(q) == Len(q) <= 1

\* "if not self.training_queue"
QueueEmpty(q) == q = <<>>

\* "self.training_queue += new_dataset_files"
Enqueue(q, new_files) == q \o new_files

\* "pop()" in place of "pop(0)": takes the newest job
PopFront_last(q) == <<q[Len(q)], SubSeq(q, 1, Len(q) - 1)>>

\* "self.training_queue.pop(0)": <<popped item, queue afterwards>>
PopFront(q) == <<Head(q), Tail(q)>>

\* "except KeyboardInterrupt: ... sys.exit(0)", "except Exception: ... sys.exit(1)"
ExitStatus(trig) == IF trig = "interrupt" THEN 0 ELSE 1

\* where a caught exception of subprocess.run leaves the main context
AfterSpawnError == "poll"

\* subprocess.run(..., check=True): a non-zero exit raises CalledProcessError
\* out of the job and into the handlers of start()
AfterChildExit_checked(status) == IF status # 0 THEN "cleanup" ELSE "poll"

\* where the return of subprocess.run leaves the main context, whatever the
\* child's returncode (no check=True, the CompletedProcess is dropped)
AfterChildExit(status) == "poll"

\* where an exception raised by rclone.ls inside _check_and_update_datasets
\* is handled: no handler in check_for_new_files or its caller, so the
\* "except Exception" of start()
AfterListingError == "cleanup"

\* where an exception raised by rclone.copy inside download_file is handled
AfterCopyError == "cleanup"

HistInit ==
    [enq |-> <<>>, deq |-> <<>>, failed |-> {}, diffs |-> 0,
     poll_empty |-> FALSE, poll_new |-> <<>>, returned |-> <<>>,
     child |-> "none", fault |-> "none", flag_set |-> FALSE,
     known0 |-> <<>>, launched |-> <<>>, child_at_trigger |-> FALSE,
     killed_by_run |-> FALSE, terminated_by_cleanup |-> FALSE]

SHistInit ==
    [stop_at |-> "none", ticks |-> 0, mirrors |-> 0, steps |-> 0,
     failed_before |-> FALSE, mirrored |-> FALSE]

\* start(), line 51: _sync_model_logs_loop() clears the flag and starts the
\* thread, then the main context enters the loop
StartSync ==
    /\ pc = "start"
    /\ stop_sync_thread' = FALSE
    /\ s_pc' = "while"
    /\ pc' = "poll"
    /\ UNCHANGED <<known, training_queue, new_dataset, trigger, exit_code, hist>>
    /\ UNCHANGED <<s_i, s_hist>>
    /\ UNCHANGED <<trainVars, diffVars>>
    /\ UNCHANGED active

\* lines 56-62: _check_and_update_datasets() on the listing the remote
\* returns, then the branch on the queue
Poll(listing) ==
    /\ pc = "poll"
    /\ LET new_dataset_files == CheckForNewFiles(listing, known, TRUE)
           q == Enqueue(training_queue, new_dataset_files)
       IN /\ known' = known \o new_dataset_files
          /\ training_queue' = q
          /\ pc' = IF QueueEmpty(q) THEN "sleep" ELSE "process"
          /\ hist' = [hist EXCEPT !.enq = @ \o new_dataset_files,
                                  !.diffs = @ + 1,
                                  !.poll_empty = (training_queue = <<>>),
                                  !.poll_new = new_dataset_files,
                                  !.returned = <<>>]
    /\ UNCHANGED <<new_dataset, stop_sync_thread, trigger, exit_code>>
    /\ UNCHANGED <<trainVars, diffVars, syncVars>>
    /\ UNCHANGED active

\* rclone.ls raises inside check_for_new_files (line 78)
PollError ==
    /\ pc = "poll"
    /\ pc' = AfterListingError
    /\ trigger' = "error"
    /\ hist' = [hist EXCEPT !.fault = "listing"]
    /\ UNCHANGED <<known, training_queue, new_dataset, stop_sync_thread, exit_code>>
    /\ UNCHANGED <<trainVars, diffVars, syncVars>>
    /\ UNCHANGED active

\* time.sleep(MONITORING_INTERVAL) returns; "continue"
SleepDone ==
    /\ pc = "sleep"
    /\ pc' = "poll"
    /\ hist' = [hist EXCEPT !.diffs = 0]
    /\ UNCHANGED <<known, training_queue, new_dataset, stop_sync_thread,
                   trigger, exit_code>>
    /\ UNCHANGED <<trainVars, diffVars, syncVars>>
    /\ UNCHANGED active

\* _process_next_dataset, line 84, up to the call of download_file
ProcessNext ==
    /\ pc = "process"
    /\ LET popped == PopFront(training_queue)
       IN /\ new_dataset' = popped[1]
          /\ training_queue' = popped[2]
          /\ hist' = [hist EXCEPT !.deq = Append(@, popped[1])]
    /\ pc' = "download"
    /\ UNCHANGED <<known, stop_sync_thread, trigger, exit_code>>
    /\ UNCHANGED <<trainVars, diffVars, syncVars>>
    /\ UNCHANGED active

\* download_file returns the local path (line 89)
DownloadOk ==
    /\ pc = "download"
    /\ pc' = "prepare"
    /\ UNCHANGED <<known, training_queue, new_dataset, stop_sync_thread,
                   trigger, exit_code, hist>>
    /\ UNCHANGED <<trainVars, diffVars, syncVars>>
    /\ UNCHANGED active

\* rclone.copy raises inside download_file
DownloadError ==
    /\ pc = "download"
    /\ pc' = AfterCopyError
    /\ trigger' = "error"
    /\ hist' = [hist EXCEPT !.fault = "copy"]
    /\ UNCHANGED <<known, training_queue, new_dataset, stop_sync_thread, exit_code>>
    /\ UNCHANGED <<trainVars, diffVars, syncVars>>
    /\ UNCHANGED active

\* Trainer.prepare_dataset (line 92) and os.path.basename (line 95);
\* structure_ok is the result of check_dataset_structure.  A None result
\* makes os.path.basename raise TypeError, which only start() handles.
Prepare(structure_ok) ==
    /\ pc = "prepare"
    /\ IF IsZip(new_dataset) /\ structure_ok
       THEN /\ pc' = "train"
            /\ hist' = [hist EXCEPT !.launched = Append(@, new_dataset)]
            /\ UNCHANGED trigger
       ELSE /\ pc' = "cleanup"
            /\ trigger' = "error"
            /\ hist' = [hist EXCEPT !.fault = "prepare"]
    /\ UNCHANGED <<known, training_queue, new_dataset, stop_sync_thread, exit_code>>
    /\ UNCHANGED <<trainVars, diffVars, syncVars>>
    /\ UNCHANGED active

\* a launcher that starts the child and returns at once (Popen, no wait)
AfterSpawn_popen == "poll"

\* subprocess.run does not return while the child runs: the main context
\* stays inside _trigger_training_process (lines 127-133)
AfterSpawn == "train"

\* subprocess.run has started the child process
Spawn ==
    /\ pc = "train"
    /\ active = 0
    /\ active' = active + 1
    /\ pc' = AfterSpawn
    /\ UNCHANGED <<known, training_queue, new_dataset, stop_sync_thread,
                   trigger, exit_code, hist>>
    /\ UNCHANGED <<trainVars, diffVars, syncVars>>

\* subprocess.run returns: the child exited with the given status
ChildExit(status) ==
    /\ pc = "train"
    /\ active > 0
    /\ active' = active - 1
    /\ pc' = AfterChildExit(status)
    /\ hist' = [hist EXCEPT
                  !.failed = IF status # 0 THEN @ \cup {new_dataset} ELSE @,
                  !.returned = Append(@, new_dataset),
                  !.child = IF status # 0 THEN "nonzero" ELSE "ok",
                  !.diffs = 0]
    /\ UNCHANGED <<known, training_queue, new_dataset, stop_sync_thread,
                   trigger, exit_code>>
    /\ UNCHANGED <<trainVars, diffVars, syncVars>>

\* subprocess.run raises (the child could not be spawned): lines 134-135
SpawnError ==
    /\ pc = "train"
    /\ active = 0
    /\ pc' = AfterSpawnError
    /\ hist' = [hist EXCEPT !.failed = @ \cup {new_dataset},
                            !.returned = Append(@, new_dataset),
                            !.child = "spawn_error",
                            !.diffs = 0]
    /\ UNCHANGED <<known, training_queue, new_dataset, stop_sync_thread,
                   trigger, exit_code>>
    /\ UNCHANGED <<trainVars, diffVars, syncVars>>
    /\ UNCHANGED active

\* KeyboardInterrupt raised anywhere inside the try block (line 67).  When
\* it is raised inside subprocess.run, that call kills the child and waits
\* for it before the exception leaves it ("except: process.kill(); raise"
\* in the library), so the handler of start() runs with no child alive.
Interrupt ==
    /\ pc \in LoopPcs
    /\ pc' = "cleanup"
    /\ trigger' = "interrupt"
    /\ active' = 0
    /\ hist' = [hist EXCEPT !.child_at_trigger = (active > 0),
                            !.killed_by_run = (active > 0)]
    /\ UNCHANGED <<known, training_queue, new_dataset, stop_sync_thread,
                   exit_code>>
    /\ UNCHANGED <<trainVars, diffVars, syncVars>>

\* a cleanup that leaves the flag as it is
StopFlag_kept(flag) == flag

\* "self.stop_sync_thread = True" of _cleanup
StopFlag(flag) == TRUE

\* _cleanup(sync_thread, None), lines 104-106: the thread object is truthy,
\* the flag is set and join(timeout=2) is entered
Cleanup ==
    /\ pc = "cleanup"
    /\ stop_sync_thread' = StopFlag(stop_sync_thread)
    /\ pc' = "join"
    /\ hist' = [hist EXCEPT !.flag_set = stop_sync_thread']
    /\ s_hist' = IF s_hist.stop_at = "none" /\ stop_sync_thread'
                 THEN [s_hist EXCEPT !.stop_at = s_pc] ELSE s_hist
    /\ UNCHANGED <<known, training_queue, new_dataset, trigger, exit_code>>
    /\ UNCHANGED <<s_pc, s_i>>
    /\ UNCHANGED <<trainVars, diffVars>>
    /\ UNCHANGED active

\* the training_proc argument of both calls of _cleanup (lines 69 and 73)
TrainingProc == "None"

\* join(timeout=2) returns, because the thread ended or the timeout passed;
\* "if training_proc: training_proc.terminate()"; then sys.exit(status)
JoinReturn ==
    /\ pc = "join"
    /\ pc' = "exited"
    /\ exit_code' = ExitStatus(trigger)
    /\ hist' = [hist EXCEPT !.terminated_by_cleanup = (TrainingProc # "None")]
    /\ UNCHANGED <<known, training_queue, new_dataset, stop_sync_thread,
                   trigger>>
    /\ UNCHANGED <<trainVars, diffVars, syncVars>>
    /\ UNCHANGED active

(***************************************************************************)
(* src/main.py: sync_task, the thread started by _sync_model_logs_loop     *)
(***************************************************************************)
\* "for _ in range(1200)"
SYNC_WAIT_TICKS == 1200

\* a loop condition that never sees the flag ("while True")
LoopStops_never(flag) == FALSE

\* "while not self.stop_sync_thread"
LoopStops(flag) == flag

\* a wait loop that does not look at the flag
BreakRequested_never(flag) == FALSE

\* "if self.stop_sync_thread: break"
BreakRequested(flag) == flag

\* a step of the thread taken after the flag was set
SyncStep(h, tick, mirror) ==
    IF stop_sync_thread
    THEN [h EXCEPT !.steps = @ + 1,
                   !.ticks = @ + (IF tick THEN 1 ELSE 0),
                   !.mirrors = @ + (IF mirror THEN 1 ELSE 0)]
    ELSE h

\* line 148: the loop condition is evaluated; when it holds the thread is
\* about to call sync_folder
SyncWhile ==
    /\ s_pc = "while"
    /\ s_pc' = IF LoopStops(stop_sync_thread) THEN "done" ELSE "call"
    /\ s_hist' = SyncStep(s_hist, FALSE, FALSE)
    /\ UNCHANGED s_i
    /\ UNCHANGED <<trainVars, diffVars, mainVars>>

\* line 150: sync_folder is called; the flag is not read again before it
MirrorCall ==
    /\ s_pc = "call"
    /\ s_pc' = "mirror"
    /\ s_hist' = [SyncStep(s_hist, FALSE, TRUE) EXCEPT !.mirrored = TRUE]
    /\ UNCHANGED s_i
    /\ UNCHANGED <<trainVars, diffVars, mainVars>>

\* a sync_task without the try/except: the exception ends the thread
AfterMirrorError_uncaught == "done"

\* lines 151-152: "except Exception" logs the error and the thread goes on
\* to the wait loop
AfterMirrorError == "for"

\* lines 149-152: sync_folder returns, or raises and the error is logged
MirrorReturn(failed) ==
    /\ s_pc = "mirror"
    /\ s_pc' = IF failed THEN AfterMirrorError ELSE "for"
    /\ s_i' = 0
    /\ s_hist' = [SyncStep(s_hist, FALSE, FALSE) EXCEPT
                     !.failed_before = @ \/ failed]
    /\ UNCHANGED <<trainVars, diffVars, mainVars>>

\* lines 155-157: the head of the for loop and the check of the flag
SyncFor ==
    /\ s_pc = "for"
    /\ s_pc' = IF s_i >= SYNC_WAIT_TICKS \/ BreakRequested(stop_sync_thread)
               THEN "while" ELSE "tick"
    /\ s_hist' = SyncStep(s_hist, FALSE, FALSE)
    /\ UNCHANGED s_i
    /\ UNCHANGED <<trainVars, diffVars, mainVars>>

\* line 158: time.sleep(1) returns
Tick ==
    /\ s_pc = "tick"
    /\ s_pc' = "for"
    /\ s_i' = s_i + 1
    /\ s_hist' = SyncStep(s_hist, TRUE, FALSE)
    /\ UNCHANGED <<trainVars, diffVars, mainVars>>

\* threading.Thread(target=sync_task, daemon=False), line 161
ThreadIsDaemon == FALSE

\* The process ends after sys.exit: the interpreter first waits for every
\* thread that is not a daemon thread.
ProcessEnd ==
    /\ pc = "exited"
    /\ ThreadIsDaemon \/ s_pc = "done"
    /\ pc' = "terminated"
    /\ UNCHANGED <<known, training_queue, new_dataset, active, stop_sync_thread,
                   trigger, exit_code, hist>>
    /\ UNCHANGED <<trainVars, diffVars, syncVars>>

(***************************************************************************)
(* Specifications                                                          *)
(***************************************************************************)
TrainIdle ==
    /\ has_top10 = FALSE
    /\ top10 = <<>>
    /\ ckpt_paths = {}
    /\ files = {}
    /\ epoch = 0
    /\ offered = EmptyBag
    /\ calls = 0
    /\ last = [kind |-> "none", cand |-> <<>>, worst |-> <<>>, removed |-> {},
               del_failed |-> FALSE]

DiffIdle ==
    /\ d_pc = "idle"
    /\ d_is_gdrive = TRUE
    /\ d_current = <<>>
    /\ d_current0 = <<>>
    /\ d_listing = <<>>
    /\ d_new = <<>>

\* TrainManager.__init__: _initialize() takes the current remote listing as
\* known (check_for_new_files against []); the three other lists it builds
\* are never read again
MainInit(listings) ==
    /\ pc = "start"
    /\ \E names \in listings :
           known = CheckForNewFiles(AsEntries(names, TRUE), <<>>, TRUE)
    /\ training_queue = <<>>
    /\ new_dataset = "none"
    /\ stop_sync_thread = FALSE
    /\ trigger = "none"
    /\ exit_code = -1
    /\ active = 0
    /\ hist = [HistInit EXCEPT !.known0 = known]

SyncIdle ==
    /\ s_pc = "unstarted"
    /\ s_i = 0
    /\ s_hist = SHistInit

MainNext(listings) ==
    \/ StartSync
    \/ \E names \in listings : Poll(AsEntries(names, TRUE))
    \/ PollError
    \/ SleepDone
    \/ ProcessNext
    \/ DownloadOk
    \/ DownloadError
    \/ \E structure_ok \in BOOLEAN : Prepare(structure_ok)
    \/ Spawn
    \/ \E status \in {0, 1} : ChildExit(status)
    \/ SpawnError
    \/ Interrupt
    \/ Cleanup
    \/ JoinReturn

SyncNext ==
    \/ SyncWhile
    \/ MirrorCall
    \/ \E failed \in BOOLEAN : MirrorReturn(failed)
    \/ SyncFor
    \/ Tick

\* the retention callback over one training run
InitTrain == TrainIdle /\ DiffIdle /\ MainInit({<<>>}) /\ SyncIdle
NextTrain == \E score \in Scores, delFails \in BOOLEAN : SaveTop10(score, delFails)
SpecTrain == InitTrain /\ [][NextTrain]_vars

\* one call of check_for_new_files
InitDiff ==
    /\ TrainIdle /\ MainInit({<<>>}) /\ SyncIdle
    /\ d_pc = "call"
    /\ d_is_gdrive \in BOOLEAN
    /\ d_current \in LocalListings
    /\ d_current0 = d_current
    /\ \E names \in (IF d_is_gdrive THEN GdriveListings ELSE LocalListings) :
           d_listing = AsEntries(names, d_is_gdrive)
    /\ d_new = <<>>
NextDiff == DiffCall
SpecDiff == InitDiff /\ [][NextDiff]_vars

\* the main context of the orchestrator; the sync thread is started and
\* never writes a variable the main context reads
InitMain == TrainIdle /\ DiffIdle /\ MainInit(GdriveListings) /\ SyncIdle
NextMain == MainNext(GdriveListings)
SpecMain == InitMain /\ [][NextMain]_vars

\* the main context together with the sync thread, over a remote folder
\* that holds at most one dataset
OneDataset == {<<>>, <<"a.zip">>}
Init == TrainIdle /\ DiffIdle /\ MainInit(OneDataset) /\ SyncIdle
Next == MainNext(OneDataset) \/ SyncNext \/ ProcessEnd
Spec == Init /\ [][Next]_vars

\* the main context under the assumption that every step it waits for
\* comes about: each collaborator call, sleep and child process ends (by
\* returning or by raising), or an interrupt arrives
SpecMainFair == InitMain /\ [][NextMain]_vars /\ WF_vars(NextMain)

\* the sync thread beside an orchestrator whose remote folder never changes
\* (each poll finds nothing new), under the assumption that the thread is
\* started and scheduled and that sleep(1) and sync_folder end (by
\* returning or by raising)
NextIdle ==
    \/ StartSync
    \/ Poll(<<>>)
    \/ SleepDone
    \/ PollError
    \/ Interrupt
    \/ Cleanup
    \/ JoinReturn
    \/ ProcessEnd
    \/ SyncNext
SpecSyncFair ==
    Init /\ [][NextIdle]_vars /\ WF_vars(StartSync) /\ WF_vars(SyncNext)

(***************************************************************************)
(* Properties of the retention callback (SpecTrain)                        *)
(***************************************************************************)
Min(a, b) == IF a < b THEN a ELSE b

\* the bag of the scores held in a heap list
ScoreBag(h) ==
    LET vals == {h[i][1] : i \in 1..Len(h)}
    IN [v \in vals |-> Cardinality({i \in 1..Len(h) : h[i][1] = v})]

MemberPaths(h) == {h[i][3] : i \in 1..Len(h)}

\* C1: after N invocations the retained scores are exactly the min(N, K)
\* highest of the N scores offered: they are min(N, K) of the offered scores,
\* and no score offered and not retained (evicted or rejected) is higher
\* than a retained one.
C1_TopK ==
    LET kept == ScoreBag(top10)
        gone == offered (-) kept
    IN /\ BagCardinality(kept) = Min(calls, K)
       /\ kept \sqsubseteq offered
       /\ BagCardinality(gone) = calls - Min(calls, K)
       /\ \A r \in BagToSet(kept), x \in BagToSet(gone) : x <= r

\* C1 witness: two evictions happened, and a lower score is gone
C1_Witness ==
    /\ calls = K + 2
    /\ last.kind = "replace"
    /\ \E x \in BagToSet(offered (-) ScoreBag(top10)) : x < top10[1][1]
    /\ BagCardinality(offered (-) ScoreBag(top10)) = 2

\* C2: the retention set never holds more than K checkpoints, and after
\* more than K invocations it holds exactly K.
C2_Capacity ==
    /\ Len(top10) <= K
    /\ calls > K => Len(top10) = K

\* C2 witness: more than K invocations, the last one rejected
C2_Witness == calls > K /\ last.kind = "drop" /\ Len(top10) = K

\* C3: an eviction deletes the artifact of the evicted checkpoint only, and
\* never one that a checkpoint still in the retention set is stored under
\* (also when two candidates share one artifact path).
C3_EvictionSparesMembers ==
    /\ last.removed \subseteq (IF last.kind = "replace" THEN {last.worst[3]} ELSE {})
    /\ \A p \in last.removed : p \in MemberPaths(top10) => p \in files

(***************************************************************************)
(* Properties of check_for_new_files (SpecDiff)                            *)
(***************************************************************************)
\* C4: the call returns exactly the identifiers of the listing that are
\* absent from the known list, in listing order, none of them more than
\* once and none that is known, and leaves the known list unchanged.
C4_DiffExact ==
    d_pc = "done" =>
        LET names == FileNames(d_listing, d_is_gdrive)
        IN /\ Range(d_new) = Range(names) \ Range(d_current0)
           /\ NoDup(d_new)
           /\ \A i, j \in 1..Len(d_new) : i < j =>
                  \E a, b \in 1..Len(names) :
                      a < b /\ names[a] = d_new[i] /\ names[b] = d_new[j]
           /\ d_current = d_current0

(***************************************************************************)
(* Properties of the main context (SpecMain)                               *)
(***************************************************************************)
IsPrefix(p, q) == Len(p) <= Len(q) /\ SubSeq(q, 1, Len(p)) = p

Count(x, q) == Cardinality({i \in 1..Len(q) : q[i] = x})

\* C5: identifiers are dequeued in exactly the order in which they were
\* appended: what was dequeued so far, followed by the queue, is what was
\* appended so far.
C5_Fifo ==
    /\ IsPrefix(hist.deq, hist.enq)
    /\ hist.enq = hist.deq \o training_queue

\* C5 witness: two different datasets were dequeued while another waits
C5_Witness ==
    /\ Len(hist.deq) >= 2
    /\ hist.deq[1] # hist.deq[2]
    /\ training_queue # <<>>
    /\ training_queue[1] \notin Range(hist.deq)

\* the step in which subprocess.run ends with a failure
ChildFailed ==
    /\ pc = "train"
    /\ hist'.returned # hist.returned
    /\ hist'.child \in {"nonzero", "spawn_error"}

\* C6: a child that exits non-zero, or cannot be spawned, does not start
\* the shutdown: the main context is at the next poll, and a failed job is
\* never put back into the queue.
C6_ChildFailureContinues ==
    [][ /\ ChildFailed => /\ pc' = "poll"
                          /\ trigger' = "none"
                          /\ exit_code' = -1
                          /\ training_queue' = training_queue
        /\ \A id \in hist.failed :
               Count(id, training_queue') <= Count(id, training_queue) ]_vars

\* C6 witness: after a failed job the loop polled again and took another job
C6_Witness ==
    /\ hist.failed # {}
    /\ pc = "download"
    /\ new_dataset \notin hist.failed
    /\ trigger = "none"

\* C7: a failure of the listing primitive during a poll, or of the copy
\* primitive while a job is fetched, does not start the shutdown.
C7_CollaboratorFailureContinues ==
    hist.fault \in {"listing", "copy"} => trigger # "error"

\* C9: each iteration diffs the dataset source once; the loop sleeps only
\* with an empty queue; a poll that finds one new entry with the queue
\* empty appends one job, and the launcher has returned for that job when
\* the source is polled again.
C9_PollCycle ==
    /\ pc = "poll" => hist.diffs = 0
    /\ pc \in LoopPcs \ {"poll"} => hist.diffs = 1
    /\ pc = "sleep" => training_queue = <<>>
    /\ (hist.poll_empty /\ Len(hist.poll_new) = 1) =>
           /\ pc = "process" => training_queue = hist.poll_new
           /\ pc = "sleep" => FALSE
           /\ pc = "poll" => /\ hist.returned = hist.poll_new
                             /\ hist.deq # <<>>
                             /\ hist.deq[Len(hist.deq)] = hist.poll_new[1]

\* C9 witness: the one job found by a poll has run and the loop polls again
C9_Witness ==
    /\ pc = "poll"
    /\ hist.poll_empty
    /\ Len(hist.poll_new) = 1
    /\ hist.returned = hist.poll_new
    /\ hist.child = "ok"

\* C10: the orchestrator exits only through the shutdown sequence: the stop
\* flag is set before it exits, the exit status is 0 after an interrupt and
\* 1 after any other error of the loop.
C10_Shutdown ==
    /\ pc \in {"join", "exited"} => stop_sync_thread /\ hist.flag_set
    /\ pc = "exited" => /\ trigger \in {"interrupt", "error"}
                        /\ trigger = "interrupt" => exit_code = 0
                        /\ trigger = "error" => exit_code = 1
    /\ pc # "exited" => exit_code = -1

\* C10 witness: an exit after an interrupt that arrived while a child ran
C10_Witness ==
    /\ pc = "exited"
    /\ exit_code = 0
    /\ hist.deq # <<>>
    /\ Len(hist.returned) < Len(hist.deq)

(***************************************************************************)
(* Properties of the sync thread (Spec)                                    *)
(***************************************************************************)
WaitPcs == {"for", "tick"}

\* C8: when the flag is set while the thread waits (no sync_folder call in
\* flight), the thread completes at most one more sleep(1), starts no
\* sync_folder call, and has left its loop after at most three of its own
\* steps (end of the sleep, break, loop condition), however many of the
\* 1200 ticks remain.
C8_StopWithinOneTick ==
    s_hist.stop_at \in WaitPcs =>
        /\ s_hist.ticks <= 1
        /\ s_hist.mirrors = 0
        /\ s_hist.steps <= (IF s_hist.stop_at = "tick" THEN 3 ELSE 2)
        /\ s_pc \in {"for", "tick", "while", "done"}
        /\ s_pc = "tick" => s_hist.steps = 0
        /\ s_hist.steps = (IF s_hist.stop_at = "tick" THEN 3 ELSE 2) => s_pc = "done"

\* C8 witness: the flag was set during the first sleep of a wait, and the
\* thread has ended after that one sleep
C8_Witness ==
    /\ s_hist.stop_at = "tick"
    /\ s_pc = "done"
    /\ s_hist.ticks = 1
    /\ s_i = 1

C12_ExitNotBlockedByThread ==
    pc = "exited" => ENABLED ProcessEnd

\* C13: a dataset whose preparation fails (no .zip name, or a bad
\* structure) is dropped and the loop goes on: no shutdown is started.
C13_PrepareFailureContinues ==
    hist.fault = "prepare" => (trigger # "error" /\ pc \notin {"cleanup", "join", "exited"})

\* C14: at most one child training process is alive, it is alive only
\* while the main context is inside subprocess.run, and in a step that
\* leaves the child alive the main context does nothing (no poll, no
\* enqueue, no dequeue): only the sync thread moves.
C14_OneJobAtATime ==
    /\ [](active <= 1 /\ (active = 1 => pc = "train"))
    /\ [][(active = 1 /\ active' = 1) => UNCHANGED mainVars]_vars

\* C14 witness: the sync thread is in its second tick while a child runs
C14_Witness ==
    /\ active = 1
    /\ pc = "train"
    /\ s_pc = "tick"
    /\ s_i = 1

\* C15: the known list only grows and no identifier is enqueued twice:
\* what was enqueued so far has no repeated name, holds no name known at
\* initialisation, and every enqueued name is known.
C15_EnqueuedOnce ==
    /\ IsPrefix(hist.known0, known)
    /\ Range(hist.enq) \subseteq Range(known)
    /\ Range(hist.enq) \cap Range(hist.known0) = {}
    /\ NoDup(hist.enq)

(***************************************************************************)
(* Further properties of the retention callback (SpecTrain)                *)
(***************************************************************************)
\* the lowest score held in a non-empty heap list
MinScore(h) ==
    CHOOSE m \in {h[i][1] : i \in 1..Len(h)} : \A i \in 1..Len(h) : m <= h[i][1]

\* C16: with the set full, a candidate at or below the lowest retained
\* score is discarded (set, tracked paths and files unchanged); a candidate
\* strictly above it replaces a checkpoint of the lowest score.
C16_DropAtOrBelowMin ==
    [][ (calls' = calls + 1 /\ Len(top10) = K) =>
          LET c == last'.cand[1]
              m == MinScore(top10)
          IN /\ c <= m => /\ last'.kind = "drop"
                          /\ top10' = top10
                          /\ files' = files
                          /\ ckpt_paths' = ckpt_paths
             /\ c > m => /\ last'.kind = "replace"
                         /\ last'.worst[1] = m
                         /\ Len(top10') = K
                         /\ last'.cand \in Range(top10') ]_vars

\* C16 witness: a candidate equal to the lowest retained score was dropped
C16_Witness ==
    /\ calls > K
    /\ last.kind = "drop"
    /\ last.cand[1] = MinScore(top10)

\* C17: when os.remove fails during an eviction the callback still
\* completes: the evicted checkpoint leaves the set and the tracked paths,
\* the candidate is inserted, tracked and saved, and the only difference to
\* a successful delete is the file left on disk.
C17_DeleteFailureSwallowed ==
    [][ (calls' = calls + 1 /\ last'.del_failed) =>
          LET cand == last'.cand
              worst == last'.worst
          IN /\ last'.kind = "replace"
             /\ Len(top10') = K
             /\ ScoreBag(top10') =
                    (ScoreBag(top10) (-) SetToBag({worst[1]})) (+) SetToBag({cand[1]})
             /\ cand \in Range(top10')
             /\ cand[3] \in ckpt_paths'
             /\ ckpt_paths' = (ckpt_paths \ {worst[3]}) \cup {cand[3]}
             /\ files' = files \cup {cand[3]}
             /\ last'.removed = {} ]_vars

\* C17 witness: after a failed delete the orphan file is on disk and no
\* retained checkpoint is stored under it
C17_Witness ==
    /\ last.kind = "replace"
    /\ last.del_failed
    /\ last.worst[3] \in files
    /\ last.worst[3] \notin MemberPaths(top10)
    /\ last.worst[3] \notin ckpt_paths

(***************************************************************************)
(* Liveness                                                                *)
(***************************************************************************)
\* most identifiers the polls of one run can append
MaxEnqueued == Cardinality(Ids) * MaxListing

\* C19 (SpecMainFair): every identifier appended to the queue is in time
\* dequeued and handed to the launcher, in its turn, unless an interrupt or
\* a fatal error starts the shutdown; entries appended by later polls do
\* not keep it waiting.
C19_NoStarvation ==
    \A n \in 1..MaxEnqueued :
        (Len(hist.enq) >= n) ~>
            (\/ trigger # "none"
             \/ Len(hist.launched) >= n /\ hist.launched[n] = hist.enq[n])

\* C19 witness: two jobs were launched, and the poll between them appended
\* entries behind a job that was already waiting
C19_Witness ==
    /\ Len(hist.launched) >= 2
    /\ ~hist.poll_empty
    /\ hist.poll_new # <<>>
    /\ trigger = "none"
    /\ pc = "process"

\* C18 (SpecSyncFair): the thread ends only after the stop flag is set, also
\* after failed sync_folder calls; a later sync_folder call follows a full
\* wait of 1200 ticks; and as long as the flag is not set the thread is
\* inside a sync_folder call again and again.
C18_MirrorFailureKeepsLooping ==
    /\ [](s_pc = "done" => stop_sync_thread)
    /\ [][(s_pc = "while" /\ s_pc' = "call" /\ s_hist.mirrored)
             => s_i = SYNC_WAIT_TICKS]_vars
    /\ []<>(stop_sync_thread \/ s_pc = "mirror")

\* C18 witness: after a failed call and a full wait the thread is in its
\* next sync_folder call
C18_Witness ==
    /\ s_hist.failed_before
    /\ s_pc = "mirror"
    /\ s_i = SYNC_WAIT_TICKS
    /\ ~stop_sync_thread

\* C20 (SpecSyncFair): after the flag is set the thread begins at most one
\* sync_folder call, and only the one whose loop condition was already
\* evaluated; it completes at most one sleep(1); the flag is not cleared
\* once the thread runs; and the thread ends, given that a call in flight
\* returns.
C20_StopIsCooperative ==
    /\ [](stop_sync_thread =>
            /\ s_hist.mirrors <= 1
            /\ s_hist.mirrors = 1 => s_hist.stop_at = "call"
            /\ s_hist.ticks <= 1)
    /\ [][(s_pc # "unstarted" /\ stop_sync_thread) => stop_sync_thread']_vars
    /\ (stop_sync_thread ~> (s_pc = "done"))

\* C20 witness: the flag was set between the loop condition and the call;
\* that one call ran and the thread has ended
C20_Witness ==
    /\ s_hist.stop_at = "call"
    /\ s_hist.mirrors = 1
    /\ s_pc = "done"

====
